---- MODULE Spec2Model ----
(***************************************************************************)
(* pip-select.py: provenance classification of the installed               *)
(* distributions, the background "pip list --outdated" query with its      *)
(* progress bar, the curses / text selection menu and the upgrade step.    *)
(*                                                                         *)
(* Strings that the program transforms (package names, the text typed at   *)
(* the fallback prompt) are sequences of one-character strings, so that    *)
(* norm_name, split and int are computed character by character.           *)
(***************************************************************************)
EXTENDS Integers, Sequences, FiniteSets, TLC

\* ------------------------------------------------------------------ bounds
\* Longest registry enumerated in the classifier specification.
MaxDists == 2
\* Most rows handed to the menu in the menu specification.
MaxRows == 4
\* Tallest terminal (stdscr.getmaxyx()[0]) in the menu specification.
MaxHeight == 5

\* Longest line typed at the prompt of the text fallback.
MaxLine == 4

\* Longest distribution name whose normalization is compared.
MaxName == 3

\* ------------------------------------------------------------ small helpers
Max(a, b) == IF a >= b THEN a ELSE b

Min(a, b) == IF a <= b THEN a ELSE b

SeqsUpTo(S, n) == UNION {[1..k -> S] : k \in 0..n}

\* ------------------------------------------------------- characters, names
Separators == {"-", "_", "."}

Whitespace == {" "}

\* str.lower() on the characters the model uses.
LowerChar(c) ==
  CASE c = "A" -> "a"
    [] c = "B" -> "b"
    [] c = "C" -> "c"
    [] c = "E" -> "e"
    [] c = "N" -> "n"
    [] c = "O" -> "o"
    [] c = "S" -> "s"
    [] c = "X" -> "x"
    [] c = "Y" -> "y"
    [] OTHER -> c

\* ord(c): Python compares strings by code point.
CodePoint(c) ==
  CASE c = " " -> 32
    [] c = "," -> 44
    [] c = "-" -> 45
    [] c = "." -> 46
    [] c = "0" -> 48
    [] c = "1" -> 49
    [] c = "2" -> 50
    [] c = "3" -> 51
    [] c = "4" -> 52
    [] c = "5" -> 53
    [] c = "6" -> 54
    [] c = "7" -> 55
    [] c = "8" -> 56
    [] c = "9" -> 57
    [] c = "A" -> 65
    [] c = "B" -> 66
    [] c = "C" -> 67
    [] c = "E" -> 69
    [] c = "N" -> 78
    [] c = "O" -> 79
    [] c = "S" -> 83
    [] c = "X" -> 88
    [] c = "Y" -> 89
    [] c = "_" -> 95
    [] c = "a" -> 97
    [] c = "b" -> 98
    [] c = "c" -> 99
    [] c = "d" -> 100
    [] c = "e" -> 101
    [] c = "f" -> 102
    [] c = "n" -> 110
    [] c = "o" -> 111
    [] c = "s" -> 115
    [] c = "x" -> 120
    [] c = "y" -> 121
    [] OTHER -> 127

\* _NAME_NORM_RE.sub("-", name): every maximal run of [-_.] becomes one "-".
RECURSIVE DropSeparators(_)
DropSeparators(s) ==
  IF s = <<>> THEN <<>>
  ELSE IF Head(s) \in Separators THEN DropSeparators(Tail(s))
  ELSE s

\* Mutant: each separator character is replaced, a run is not collapsed.
SubSeparatorsEach(s) == [i \in 1..Len(s) |-> IF s[i] \in Separators THEN "-" ELSE s[i]]

RECURSIVE SubSeparators(_)
SubSeparators(s) ==
  IF s = <<>> THEN <<>>
  ELSE IF Head(s) \in Separators
       THEN <<"-">> \o SubSeparators(DropSeparators(s))
  ELSE <<Head(s)>> \o SubSeparators(Tail(s))

Lower(s) == [i \in 1..Len(s) |-> LowerChar(s[i])]

RECURSIVE LStrip(_)
LStrip(s) ==
  IF s = <<>> THEN <<>>
  ELSE IF Head(s) \in Whitespace THEN LStrip(Tail(s))
  ELSE s

RECURSIVE RStrip(_)
RStrip(s) ==
  IF s = <<>> THEN <<>>
  ELSE IF s[Len(s)] \in Whitespace THEN RStrip(SubSeq(s, 1, Len(s) - 1))
  ELSE s

Strip(s) == RStrip(LStrip(s))

norm_name(name) == Strip(Lower(SubSeparators(name)))

\* s < t for Python strings: lexicographic by code point, a proper prefix first.
RECURSIVE StrLess(_, _)
StrLess(s, t) ==
  IF t = <<>> THEN FALSE
  ELSE IF s = <<>> THEN TRUE
  ELSE IF CodePoint(Head(s)) < CodePoint(Head(t)) THEN TRUE
  ELSE IF CodePoint(Head(s)) > CodePoint(Head(t)) THEN FALSE
  ELSE StrLess(Tail(s), Tail(t))

\* ------------------------------------------------- the environment of a run
\* Paths the detection looks at: the directory CONDA_PREFIX names and sys.prefix.
EnvPath == "/env"

SysPrefix == "/sys"

NoPath == "None"

Paths == {EnvPath, SysPrefix}

\* One conda-meta/*.json document: ok is FALSE when it cannot be read or parsed
\* or carries no string "name".
FileBad == [ok |-> FALSE, name |-> <<>>]

FileAB == [ok |-> TRUE, name |-> <<"A", ".", "B">>]

FileBlank == [ok |-> TRUE, name |-> <<" ">>]

FileC == [ok |-> TRUE, name |-> <<"c">>]

ManifestPool == {{}, {FileBad, FileAB, FileBlank}, {FileC}}

NoMeta == [isdir |-> FALSE, files |-> {}]

MetaPool == {NoMeta} \cup {[isdir |-> TRUE, files |-> F] : F \in ManifestPool}

\* Raw distribution names and INSTALLER markers (already stripped and lowercased
\* by read_installer).
NamePool == {<<"A", "_", "b">>, <<"a", "-", "b">>, <<"c">>}

InstallerPool == {"pip", "conda", "", "uv"}

UnitPool == [name : NamePool, installer : InstallerPool]

\* ----------------------------------------------------------------- state
VARIABLES
  env_conda_prefix,   \* os.environ.get("CONDA_PREFIX"): "" when unset or empty
  fs_exists,          \* the paths that exist on disk
  fs_meta,            \* path -> its conda-meta directory
  registry,           \* what list_installed_distributions() enumerates
  arg_user,           \* --user
  arg_dry_run,        \* --dry-run
  arg_no_curses,      \* --no-curses
  tty,                \* is_tty()
  venv,               \* in_venv()
  typed_line,         \* what input() yields at the prompt of the text fallback
  pc,                 \* position of the primary thread
  conda_prefix, conda_names, dists, idx, pip_names, excluded_conda, pip_count,
  verdicts,           \* history: the branch each enumerated unit took
  wpc,                \* position of the background worker thread
  wlocal,             \* the worker's locals rc, out, err
  stop_event,         \* threading.Event
  result_container,   \* the dict shared by the two threads
  started,            \* history: number of worker threads started
  all_cands, cands, selected, pos, top, body_h, chosen,
  ch,                 \* the key getch returned last ("none" before the first)
  exit_code,          \* the status the run ends with, once pc = "exit"
  err_shown,          \* history: the error text printed before a fatal exit
  installs,           \* history: number of times the install command ran
  answer,             \* history: what input() yielded last at the confirmation
  install_status,     \* history: the status the install command returned
  reached             \* history: the phases the primary thread has entered

envVars == <<env_conda_prefix, fs_exists, fs_meta, registry,
             arg_user, arg_dry_run, arg_no_curses, tty, venv, typed_line>>

classVars == <<conda_prefix, conda_names, dists, idx, pip_names, excluded_conda,
               pip_count, verdicts>>

queryVars == <<wpc, wlocal, stop_event, result_container, started, all_cands>>

menuVars == <<cands, selected, pos, top, body_h, chosen, ch>>

endVars == <<exit_code, installs, err_shown, answer, install_status>>

vars == <<envVars, classVars, queryVars, menuVars, endVars, pc, reached>>

\* ---------------------------------------------------- conda detection
\* Mutant: the path CONDA_PREFIX names is returned without the exists() test.
detect_conda_prefix_unchecked ==
  IF env_conda_prefix # "" THEN env_conda_prefix
  ELSE IF fs_meta[SysPrefix].isdir THEN SysPrefix
  ELSE NoPath

\* detect_conda_prefix as written: CONDA_PREFIX wins when its path exists.
detect_conda_prefix ==
  IF env_conda_prefix # "" /\ env_conda_prefix \in fs_exists
  THEN env_conda_prefix
  ELSE IF fs_meta[SysPrefix].isdir THEN SysPrefix
  ELSE NoPath

conda_meta_names(prefix) ==
  IF ~fs_meta[prefix].isdir THEN {}
  ELSE {norm_name(f.name) :
          f \in {g \in fs_meta[prefix].files : g.ok /\ Strip(g.name) # <<>>}}

\* Mutant: the INSTALLER marker "conda" only counts inside a conda prefix.
VerdictCondaNeedsPrefix(d, prefix, names) ==
  IF prefix # NoPath /\ d.installer = "conda" THEN "excluded"
  ELSE IF prefix # NoPath /\ norm_name(d.name) \in names THEN "excluded"
  ELSE "eligible"

\* Mutant: only the markers pip, pip3 and the empty one are taken as pip's.
VerdictThirdPartyExcluded(d, prefix, names) ==
  IF d.installer = "conda" THEN "excluded"
  ELSE IF prefix # NoPath /\ norm_name(d.name) \in names THEN "excluded"
  ELSE IF d.installer \in {"pip", "pip3", ""} THEN "eligible"
  ELSE "excluded"

\* The branch one unit takes in the loop of pip_installed_set_excluding_conda.
Verdict(d, prefix, names) ==
  IF d.installer = "conda" THEN "excluded"
  ELSE IF prefix # NoPath /\ norm_name(d.name) \in names THEN "excluded"
  ELSE "eligible"

\* len(pip_names): the count the classifier returns as count_pip.
CountPip(names) == Cardinality(names)

\* ---------------------------------------------------- main: start-up
\* main, lines 502-511: --user inside a virtual environment is refused.
ParseArgs ==
  /\ pc = "start"
  /\ IF arg_user /\ venv
     THEN pc' = "exit" /\ exit_code' = 2
     ELSE pc' = "detect" /\ exit_code' = exit_code
  /\ UNCHANGED <<envVars, classVars, queryVars, menuVars, installs, err_shown,
                 answer, install_status, reached>>

\* pip_installed_set_excluding_conda, lines 183-189.
ClassifyBegin ==
  /\ pc = "detect"
  /\ LET p == detect_conda_prefix IN
       /\ conda_prefix' = p
       /\ conda_names' = IF p # NoPath THEN conda_meta_names(p) ELSE {}
  /\ dists' = registry
  /\ idx' = 1
  /\ pip_names' = {}
  /\ excluded_conda' = 0
  /\ verdicts' = <<>>
  /\ pc' = "classify"
  /\ reached' = reached \cup {"classify"}
  /\ UNCHANGED <<envVars, pip_count, queryVars, menuVars, endVars>>

\* One iteration of the loop, lines 191-210.
ClassifyUnit ==
  /\ pc = "classify"
  /\ idx <= Len(dists)
  /\ LET d == dists[idx]
         v == Verdict(d, conda_prefix, conda_names)
     IN /\ excluded_conda' = IF v = "excluded" THEN excluded_conda + 1
                             ELSE excluded_conda
        /\ pip_names' = IF v = "eligible" THEN pip_names \cup {norm_name(d.name)}
                        ELSE pip_names
        /\ verdicts' = Append(verdicts, v)
  /\ idx' = idx + 1
  /\ UNCHANGED <<envVars, conda_prefix, conda_names, dists, pip_count,
                 queryVars, menuVars, endVars, pc, reached>>

\* The return of line 212 and main's lines 513-516.
ClassifyReturn ==
  /\ pc = "classify"
  /\ idx > Len(dists)
  /\ pip_count' = CountPip(pip_names)
  /\ pc' = "query"
  /\ UNCHANGED <<envVars, conda_prefix, conda_names, dists, idx, pip_names,
                 excluded_conda, verdicts, queryVars, menuVars, endVars, reached>>

\* ------------------------------------------- the query and its worker thread
\* What run_capture can hand back: the JSON text of "pip list --outdated".
\* kind: "blank" (empty or whitespace), "invalid" (not JSON), "notlist" (JSON,
\* not a list), "list". An item that is no dict has isdict FALSE; a missing,
\* null or empty field is the empty string.
Item(n, cur, lat) == [isdict |-> TRUE, name |-> n, version |-> cur, latest_version |-> lat]

ItemNonDict == [isdict |-> FALSE, name |-> <<>>, version |-> "", latest_version |-> ""]

OutBlank == [kind |-> "blank", items |-> <<>>]

OutInvalid == [kind |-> "invalid", items |-> <<>>]

OutNotList == [kind |-> "notlist", items |-> <<>>]

OutList(items) == [kind |-> "list", items |-> items]

OutputPool ==
  { OutBlank, OutInvalid, OutNotList, OutList(<<>>),
    OutList(<<Item(<<"c">>, "1.0", "2.0"), Item(<<"A", "_", "b">>, "1.1", "1.2")>>),
    OutList(<<Item(<<"c">>, "1.0", "2.0"), Item(<<"a", "-", "b">>, "3.0", "3.1"),
              Item(<<"A", "_", "b">>, "1.1", "1.2")>>),
    OutList(<<ItemNonDict, Item(<<"c">>, "", "2.0"), Item(<<>>, "1.0", "2.0"),
              Item(<<"a", "-", "b">>, "3.0", ""), Item(<<"A", "_", "b">>, "1.1", "1.2")>>) }

QueryRcs == {1, 2}

ErrPool == {"", "network error"}

\* run_capture either raises inside the worker (the interpreter cannot be run,
\* the output cannot be decoded) or returns (rc, out, err).
PipResults ==
  {[raises |-> TRUE, rc |-> 0, out |-> OutBlank, err |-> ""]}
  \cup {[raises |-> FALSE, rc |-> 0, out |-> o, err |-> ""] : o \in OutputPool}
  \cup {[raises |-> FALSE, rc |-> r, out |-> OutBlank, err |-> e] :
          r \in QueryRcs, e \in ErrPool}

NoResult == [raises |-> FALSE, rc |-> 0, out |-> OutBlank, err |-> ""]

EmptyDict == [k \in {} |-> 0]

DictSet(d, k, v) == [x \in (DOMAIN d) \cup {k} |-> IF x = k THEN v ELSE d[x]]

DictGet(d, k, default) == IF k \in DOMAIN d THEN d[k] ELSE default

Candidate(it) == [name |-> it.name, current |-> it.version, latest |-> it.latest_version]

KeepItem(it) == it.isdict /\ it.name # <<>> /\ it.version # "" /\ it.latest_version # ""

RECURSIVE ParseItems(_)
ParseItems(items) ==
  IF items = <<>> THEN <<>>
  ELSE IF KeepItem(Head(items))
       THEN <<Candidate(Head(items))>> \o ParseItems(Tail(items))
  ELSE ParseItems(Tail(items))

parse_pip_list_outdated_json(output) ==
  IF output.kind # "list" THEN <<>> ELSE ParseItems(output.items)

\* get_upgrade_candidates_from_pip, lines 297-311: the event, the dict, the thread.
StartWorker ==
  /\ pc = "query"
  /\ stop_event' = FALSE
  /\ result_container' = EmptyDict
  /\ wpc' = "run"
  /\ started' = started + 1
  /\ pc' = "poll"
  /\ reached' = reached \cup {"query"}
  /\ UNCHANGED <<envVars, classVars, wlocal, all_cands, menuVars, endVars>>

\* run_pip, lines 302-303.
WorkerRun ==
  /\ wpc = "run"
  /\ \E r \in PipResults :
       /\ wlocal' = r
       /\ wpc' = IF r.raises THEN "raised" ELSE "store_rc"
  /\ UNCHANGED <<envVars, classVars, stop_event, result_container, started,
                 all_cands, menuVars, endVars, pc, reached>>

\* run_pip, line 304.
WorkerStoreRc ==
  /\ wpc = "store_rc"
  /\ result_container' = DictSet(result_container, "rc", wlocal.rc)
  /\ wpc' = "store_out"
  /\ UNCHANGED <<envVars, classVars, wlocal, stop_event, started, all_cands,
                 menuVars, endVars, pc, reached>>

\* run_pip, line 305.
WorkerStoreOut ==
  /\ wpc = "store_out"
  /\ result_container' = DictSet(result_container, "out", wlocal.out)
  /\ wpc' = "store_err"
  /\ UNCHANGED <<envVars, classVars, wlocal, stop_event, started, all_cands,
                 menuVars, endVars, pc, reached>>

\* run_pip, line 306.
WorkerStoreErr ==
  /\ wpc = "store_err"
  /\ result_container' = DictSet(result_container, "err", wlocal.err)
  /\ wpc' = "signal"
  /\ UNCHANGED <<envVars, classVars, wlocal, stop_event, started, all_cands,
                 menuVars, endVars, pc, reached>>

\* run_pip, line 307: stop_event.set(), the last statement of the worker.
WorkerSignal ==
  /\ wpc = "signal"
  /\ stop_event' = TRUE
  /\ wpc' = "exiting"
  /\ UNCHANGED <<envVars, classVars, wlocal, result_container, started, all_cands,
                 menuVars, endVars, pc, reached>>

\* run_pip returns and the thread ends; only from here on can join() return.
WorkerExit ==
  /\ wpc = "exiting"
  /\ wpc' = "done"
  /\ UNCHANGED <<envVars, classVars, wlocal, stop_event, result_container, started,
                 all_cands, menuVars, endVars, pc, reached>>

\* Mutant: the progress bar returns without having seen the event set.
LoopExitsAlways(ev) == TRUE

\* The loop test of _show_progress_bar, line 274.
LoopExits(ev) == ev

\* _show_progress_bar: one test of the loop condition; the bar is redrawn while
\* the event is clear, and the function returns once it is seen set.
ShowProgressBar ==
  /\ pc = "poll"
  /\ pc' = IF LoopExits(stop_event) THEN "join" ELSE "poll"
  /\ UNCHANGED <<envVars, classVars, queryVars, menuVars, endVars, reached>>

\* Mutant: join() returns without waiting for the thread to end.
JoinableAlways(w) == TRUE

\* Thread.join returns once the thread has ended, normally or by an exception.
Joinable(w) == w \in {"done", "raised"}

\* pip_thread.join(), line 317.
JoinWorker ==
  /\ pc = "join"
  /\ Joinable(wpc)
  /\ pc' = "check"
  /\ UNCHANGED <<envVars, classVars, queryVars, menuVars, endVars, reached>>

\* Mutant: every failure of the query ends the run with status 1.
ExitStatusOne(rc) == 1

\* raise SystemExit(rc), line 328: the status the run ends with.
ExitStatus(rc) == rc

\* Lines 320-331: a nonzero rc ends the run after the error text is printed (an
\* empty text prints nothing), otherwise the output is parsed.
CheckResults ==
  /\ pc = "check"
  /\ LET rc == DictGet(result_container, "rc", 1)
         out == DictGet(result_container, "out", OutBlank)
         err == DictGet(result_container, "err", "")
     IN IF rc # 0
        THEN /\ pc' = "exit"
             /\ err_shown' = err
             /\ exit_code' = ExitStatus(rc)
             /\ UNCHANGED <<all_cands, reached>>
        ELSE /\ all_cands' = parse_pip_list_outdated_json(out)
             /\ pc' = "filter"
             /\ reached' = reached \cup {"parse"}
             /\ UNCHANGED <<exit_code, err_shown>>
  /\ UNCHANGED <<envVars, classVars, wpc, wlocal, stop_event, result_container,
                 started, menuVars, installs, answer, install_status>>

\* ------------------------------------------------- main: filter and sort
InSet(c, names) == norm_name(c.name) \in names

Filter(cs, names) == SelectSeq(cs, LAMBDA c : InSet(c, names))

\* list.sort(key=...) is stable: x goes behind every element whose key is not
\* greater than its own.
RECURSIVE InsertSorted(_, _)
InsertSorted(x, s) ==
  IF s = <<>> THEN <<x>>
  ELSE IF StrLess(norm_name(x.name), norm_name(Head(s).name)) THEN <<x>> \o s
  ELSE <<Head(s)>> \o InsertSorted(x, Tail(s))

RECURSIVE SortCands(_)
SortCands(s) ==
  IF s = <<>> THEN <<>>
  ELSE InsertSorted(s[Len(s)], SortCands(SubSeq(s, 1, Len(s) - 1)))

\* Mutant: the empty filtered list is not tested for.
NothingToDoNever(kept) == FALSE

\* if not cands, line 523.
NothingToDo(kept) == kept = <<>>

\* main, lines 521-533.
FilterAndSort ==
  /\ pc = "filter"
  /\ LET kept == Filter(all_cands, pip_names) IN
       IF NothingToDo(kept)
       THEN /\ cands' = kept
            /\ pc' = "exit"
            /\ exit_code' = 0
       ELSE /\ cands' = SortCands(kept)
            /\ pc' = IF ~arg_no_curses /\ tty THEN "curses" ELSE "fallback"
            /\ UNCHANGED exit_code
  /\ UNCHANGED <<envVars, classVars, queryVars, selected, pos, top, body_h, chosen,
                 ch, installs, err_shown, answer, install_status, reached>>

\* ------------------------------------------------- the curses menu
clamp(n, lo, hi) == Max(lo, Min(hi, n))

\* Mutant: the viewport does not follow the cursor downwards (line 361 lost).
ScrollTopNoScrollDown(t, p, bh, n) ==
  LET t1 == IF p < t THEN p ELSE t
  IN clamp(t1, 0, Max(0, n - bh))

\* Mutant: the viewport is always the smallest offset that shows the cursor.
ScrollTopMinimal(t, p, bh, n) == Max(0, p - bh + 1)

\* "Keep pos visible", lines 359-363: p is the clamped pos of this frame.
ScrollTop(t, p, bh, n) ==
  LET t1 == IF p < t THEN p ELSE t
      t2 == IF p >= t1 + bh THEN p - bh + 1 ELSE t1
  IN clamp(t2, 0, Max(0, n - bh))

Heights == 1..MaxHeight

QuitKeys == {"q", "Q"}

UpKeys == {"KEY_UP", "k", "K"}

DownKeys == {"KEY_DOWN", "j", "J"}

HomeKeys == {"KEY_HOME", "g"}

AllKeys == {"a", "A"}

NoneKeys == {"n", "N"}

ConfirmKeys == {"KEY_ENTER", "10", "13"}

\* What getch can return: the keys the menu names and two it does not.
Keys == QuitKeys \cup UpKeys \cup DownKeys \cup HomeKeys \cup AllKeys \cup NoneKeys
        \cup ConfirmKeys \cup {"KEY_PPAGE", "KEY_NPAGE", "KEY_END", " ", "G", "KEY_RESIZE"}

Pending == [kind |-> "pending", items |-> <<>>]

Cancelled == [kind |-> "cancelled", items |-> <<>>]

Chosen(items) == [kind |-> "list", items |-> items]

\* [cands[i] for i, ok in enumerate(selected) if ok], line 415.
RECURSIVE ChosenItems(_, _)
ChosenItems(cs, sel) ==
  IF cs = <<>> \/ sel = <<>> THEN <<>>
  ELSE (IF Head(sel) THEN <<Head(cs)>> ELSE <<>>) \o ChosenItems(Tail(cs), Tail(sel))

\* The keys that end the menu, and what it returns (lines 390-391, 414-416).
Terminates(k) == k \in QuitKeys \cup ConfirmKeys

\* Mutant: the confirm key returns every row, selected or not.
MenuResultAllRows(k, cs, sel) ==
  IF k \in QuitKeys THEN Cancelled ELSE Chosen(cs)

MenuResult(k, cs, sel) ==
  IF k \in QuitKeys THEN Cancelled ELSE Chosen(ChosenItems(cs, sel))

\* Mutant: the space bar toggles and moves the cursor to the next row.
KeyPosToggleAdvances(k, p, bh, n) ==
  CASE k \in UpKeys -> clamp(p - 1, 0, n - 1)
    [] k \in DownKeys \cup {" "} -> clamp(p + 1, 0, n - 1)
    [] k = "KEY_PPAGE" -> Max(0, p - bh)
    [] k = "KEY_NPAGE" -> Min(n - 1, p + bh)
    [] k \in HomeKeys -> 0
    [] k = "KEY_END" -> n - 1
    [] OTHER -> p

\* pos after key k (ch at line 389), lines 392-407.
KeyPos(k, p, bh, n) ==
  CASE k \in UpKeys -> clamp(p - 1, 0, n - 1)
    [] k \in DownKeys -> clamp(p + 1, 0, n - 1)
    [] k = "KEY_PPAGE" -> Max(0, p - bh)
    [] k = "KEY_NPAGE" -> Min(n - 1, p + bh)
    [] k \in HomeKeys -> 0
    [] k = "KEY_END" -> n - 1
    [] OTHER -> p

\* Mutant: select-none clears the rows from the cursor down only.
KeySelectedNoneFromCursor(k, sel, p, n) ==
  CASE k = " " -> [sel EXCEPT ![p + 1] = ~sel[p + 1]]
    [] k \in AllKeys -> [i \in 1..n |-> TRUE]
    [] k \in NoneKeys -> [i \in 1..n |-> IF i >= p + 1 THEN FALSE ELSE sel[i]]
    [] OTHER -> sel

\* selected after key k, lines 408-413 (selected[i] is the model's sel[i + 1]).
KeySelected(k, sel, p, n) ==
  CASE k = " " -> [sel EXCEPT ![p + 1] = ~sel[p + 1]]
    [] k \in AllKeys -> [i \in 1..n |-> TRUE]
    [] k \in NoneKeys -> [i \in 1..n |-> FALSE]
    [] OTHER -> sel

\* curses_select, lines 339-341 and 349-350.
CursesSelect ==
  /\ pc = "curses"
  /\ selected' = [i \in 1..Len(cands) |-> FALSE]
  /\ pos' = 0
  /\ top' = 0
  /\ pc' = "frame"
  /\ reached' = reached \cup {"menu"}
  /\ UNCHANGED <<envVars, classVars, queryVars, cands, body_h, chosen, ch, endVars>>

\* The body loop, lines 374-385, draws row top + r of the list at screen line
\* 1 + r for r < body_h; addnstr on a line outside the window of h lines raises
\* curses.error.
DrawRaises(h, bh, t, n) == \E r \in 0..(bh - 1) : t + r < n /\ 1 + r >= h

\* One frame, lines 353-387: the size is read, pos and top are settled, the rows
\* top .. top + body_h - 1 are drawn. Nothing catches the curses.error of a row
\* that does not fit: curses.wrapper restores the terminal and re-raises, and
\* the run ends with the interpreter's status 1.
Frame ==
  /\ pc = "frame"
  /\ \E h \in Heights :
       LET bh == Max(1, h - 2)
           p == clamp(pos, 0, Len(cands) - 1)
           t == ScrollTop(top, p, bh, Len(cands))
       IN /\ body_h' = bh
          /\ pos' = p
          /\ top' = t
          /\ IF DrawRaises(h, bh, t, Len(cands))
             THEN pc' = "exit" /\ exit_code' = 1
             ELSE pc' = "getch" /\ exit_code' = exit_code
  /\ UNCHANGED <<envVars, classVars, queryVars, cands, selected, chosen, ch,
                 installs, err_shown, answer, install_status, reached>>

\* One key, lines 389-416.
Key ==
  /\ pc = "getch"
  /\ \E k \in Keys :
       /\ ch' = k
       /\ IF Terminates(k)
          THEN /\ chosen' = MenuResult(k, cands, selected)
               /\ pc' = "selected"
               /\ UNCHANGED <<pos, selected>>
          ELSE /\ pos' = KeyPos(k, pos, body_h, Len(cands))
               /\ selected' = KeySelected(k, selected, pos, Len(cands))
               /\ pc' = "frame"
               /\ UNCHANGED chosen
  /\ UNCHANGED <<envVars, classVars, queryVars, cands, top, body_h, endVars, reached>>

\* ------------------------------------------------- the text fallback
Digits == {"0", "1", "2", "3", "4", "5", "6", "7", "8", "9"}

DigitVal(c) == CodePoint(c) - 48

\* s.replace(",", " ")
ReplaceCommas(s) == [i \in 1..Len(s) |-> IF s[i] = "," THEN " " ELSE s[i]]

\* str.split(): the maximal runs of non-whitespace characters.
RECURSIVE SplitFrom(_, _)
SplitFrom(s, cur) ==
  IF s = <<>> THEN (IF cur = <<>> THEN <<>> ELSE <<cur>>)
  ELSE IF Head(s) \in Whitespace
       THEN (IF cur = <<>> THEN <<>> ELSE <<cur>>) \o SplitFrom(Tail(s), <<>>)
  ELSE SplitFrom(Tail(s), Append(cur, Head(s)))

Split(s) == SplitFrom(s, <<>>)

\* The character U+00B2, SUPERSCRIPT TWO: str.isdigit() holds of it, int()
\* rejects it.
SuperscriptTwo == "sup2"

\* str.isdigit(): every character has the Unicode property Digit.
IsDigit(tok) ==
  tok # <<>> /\ \A i \in 1..Len(tok) : tok[i] \in Digits \cup {SuperscriptTwo}

\* int(tok) raises ValueError unless every character is a decimal digit.
IntRaises(tok) == \E i \in 1..Len(tok) : tok[i] \notin Digits

RECURSIVE IntOf(_)
IntOf(tok) ==
  IF tok = <<>> THEN 0
  ELSE 10 * IntOf(SubSeq(tok, 1, Len(tok) - 1)) + DigitVal(tok[Len(tok)])

Picks(s) ==
  LET toks == Split(ReplaceCommas(s))
  IN {IntOf(toks[i]) : i \in {j \in 1..Len(toks) : IsDigit(toks[j])}}

\* [cands[i - 1] for i in sorted(picks) if 1 <= i <= len(cands)]
RECURSIVE PickRows(_, _, _)
PickRows(cs, picks, i) ==
  IF i > Len(cs) THEN <<>>
  ELSE (IF i \in picks THEN <<cs[i]>> ELSE <<>>) \o PickRows(cs, picks, i + 1)

\* picks.add(int(tok)), line 433, raises on a token that passed isdigit().
FallbackRaises(line) ==
  LET toks == Split(ReplaceCommas(Strip(line)))
  IN \E j \in 1..Len(toks) : IsDigit(toks[j]) /\ IntRaises(toks[j])

\* fallback_select on the line typed at the prompt, lines 426-435, when it
\* returns.
fallback_select(cs, line) ==
  LET s == Strip(line)
  IN IF s = <<>> THEN Cancelled ELSE Chosen(PickRows(cs, Picks(s), 1))

\* What input() yields at the fallback prompt: end of input (EOFError) or a
\* line.
Eof == [eof |-> TRUE, text |-> <<>>]

Line(t) == [eof |-> FALSE, text |-> t]

ResponsePool ==
  { Eof, Line(<<>>), Line(<<" ">>), Line(<<"x">>),
    Line(<<"2", ",", "1">>), Line(<<" ", "1", " ", "1", " ", "9">>),
    Line(<<"0", "2", ",", "x", "1">>), Line(<<"0">>),
    Line(<<"1", " ", SuperscriptTwo>>) }

\* fallback_select, lines 421-435; neither the EOFError of input() nor the
\* ValueError of int() is caught, and the run ends with the interpreter's
\* status 1.
FallbackSelect ==
  /\ pc = "fallback"
  /\ reached' = reached \cup {"menu"}
  /\ IF typed_line.eof \/ FallbackRaises(typed_line.text)
     THEN /\ pc' = "exit"
          /\ exit_code' = 1
          /\ UNCHANGED chosen
     ELSE /\ chosen' = fallback_select(cands, typed_line.text)
          /\ pc' = "selected"
          /\ UNCHANGED exit_code
  /\ UNCHANGED <<envVars, classVars, queryVars, cands, selected, pos, top, body_h,
                 ch, installs, err_shown, answer, install_status>>

\* ------------------------------------------------- the upgrade
\* main, lines 535-544, and upgrade_selected up to the prompt, lines 448-464.
AfterSelect ==
  /\ pc = "selected"
  /\ IF chosen.kind = "cancelled" THEN pc' = "exit" /\ exit_code' = 2
     ELSE IF chosen.items = <<>> THEN pc' = "exit" /\ exit_code' = 0
     ELSE IF arg_dry_run THEN pc' = "exit" /\ exit_code' = 0
     ELSE pc' = "ask" /\ exit_code' = exit_code
  /\ reached' = IF chosen.kind = "cancelled" THEN reached
                ELSE reached \cup {"upgrade"}
  /\ UNCHANGED <<envVars, classVars, queryVars, menuVars, installs, err_shown,
                 answer, install_status>>

\* What input() yields at the confirmation prompt.
AnswerPool ==
  { Eof, Line(<<>>), Line(<<" ">>), Line(<<"y">>), Line(<<"Y">>),
    Line(<<" ", "Y", "e", "s">>), Line(<<"n">>), Line(<<"N", "O">>),
    Line(<<"x">>), Line(<<"y", "e">>) }

\* Mutant: the prompt defaults to yes (default_no=False).
ask_yes_no_default_yes(r) ==
  IF r.eof THEN "yes"
  ELSE LET ans == Lower(Strip(r.text))
       IN IF ans = <<>> THEN "yes"
          ELSE IF ans \in {<<"y">>, <<"y", "e", "s">>} THEN "yes"
          ELSE IF ans \in {<<"n">>, <<"n", "o">>} THEN "no"
          ELSE "again"

\* ask_yes_no(prompt, default_no=True) on one answer: "yes", "no", or "again".
ask_yes_no(r) ==
  IF r.eof THEN "no"
  ELSE LET ans == Lower(Strip(r.text))
       IN IF ans = <<>> THEN "no"
          ELSE IF ans \in {<<"y">>, <<"y", "e", "s">>} THEN "yes"
          ELSE IF ans \in {<<"n">>, <<"n", "o">>} THEN "no"
          ELSE "again"

\* One pass of the loop of ask_yes_no, and lines 466-468.
Ask ==
  /\ pc = "ask"
  /\ \E r \in AnswerPool :
       LET a == ask_yes_no(r)
       IN /\ pc' = CASE a = "yes" -> "install" [] a = "no" -> "exit" [] OTHER -> "ask"
          /\ exit_code' = IF a = "no" THEN 2 ELSE exit_code
          /\ answer' = r
  /\ UNCHANGED <<envVars, classVars, queryVars, menuVars, installs, err_shown,
                 install_status, reached>>

InstallRcs == {0, 1}

\* Mutant: the status of the install command is dropped.
UpgradeResultZero(rc) == 0

\* return run_stream(cmd, ...), line 470, returned in turn by main, line 539.
UpgradeResult(rc) == rc

\* run_stream on the install command, line 470.
Install ==
  /\ pc = "install"
  /\ \E rc \in InstallRcs :
       /\ install_status' = rc
       /\ exit_code' = UpgradeResult(rc)
  /\ installs' = installs + 1
  /\ pc' = "exit"
  /\ reached' = reached \cup {"install"}
  /\ UNCHANGED <<envVars, classVars, queryVars, menuVars, err_shown, answer>>

\* ------------------------------------------------- specifications
\* The file system as the detection sees it. The directory CONDA_PREFIX names
\* is only looked at when the variable names it; sys.prefix always exists.
EnvConfigs ==
  { c \in [cp : {"", EnvPath, SysPrefix},
           exists : {{SysPrefix}, {SysPrefix, EnvPath}},
           meta : [Paths -> MetaPool]] :
      /\ (EnvPath \notin c.exists => c.meta[EnvPath] = NoMeta)
      /\ (c.cp # EnvPath => EnvPath \notin c.exists) }

Unit(n, i) == [name |-> n, installer |-> i]

MetaAB == [isdir |-> TRUE, files |-> {FileBad, FileAB, FileBlank}]

\* The environments of the whole-run specification: no conda at all, python
\* inside a conda environment, and CONDA_PREFIX left over from another shell.
MainConfigs ==
  { [cp |-> "", exists |-> {SysPrefix},
     meta |-> [q \in Paths |-> NoMeta]],
    [cp |-> SysPrefix, exists |-> {SysPrefix},
     meta |-> [q \in Paths |-> IF q = SysPrefix THEN MetaAB ELSE NoMeta]],
    [cp |-> EnvPath, exists |-> {SysPrefix, EnvPath},
     meta |-> [q \in Paths |-> IF q = SysPrefix THEN MetaAB ELSE NoMeta]] }

MainRegistries ==
  { <<>>,
    <<Unit(<<"c">>, "pip"), Unit(<<"A", "_", "b">>, "conda")>>,
    <<Unit(<<"A", "_", "b">>, "conda"), Unit(<<"a", "-", "b">>, "pip"),
      Unit(<<"c">>, "")>>,
    <<Unit(<<"c">>, "uv"), Unit(<<"A", "_", "b">>, "")>> }

\* argv and the terminal.
MainFlags ==
  { f \in [user : BOOLEAN, dry_run : BOOLEAN, no_curses : BOOLEAN,
           tty : BOOLEAN, venv : BOOLEAN] :
      /\ (f.venv => f.user)
      /\ (f.no_curses => f.tty) }

NoFlags == [user |-> FALSE, dry_run |-> FALSE, no_curses |-> FALSE,
            tty |-> TRUE, venv |-> FALSE]

InitEnv(c, r, f) ==
  /\ env_conda_prefix = c.cp
  /\ fs_exists = c.exists
  /\ fs_meta = c.meta
  /\ registry = r
  /\ arg_user = f.user
  /\ arg_dry_run = f.dry_run
  /\ arg_no_curses = f.no_curses
  /\ tty = f.tty
  /\ venv = f.venv

InitClassVars ==
  /\ conda_prefix = NoPath
  /\ conda_names = {}
  /\ dists = <<>>
  /\ idx = 0
  /\ pip_names = {}
  /\ excluded_conda = 0
  /\ pip_count = 0
  /\ verdicts = <<>>

InitQueryVars ==
  /\ wpc = "idle"
  /\ wlocal = NoResult
  /\ stop_event = FALSE
  /\ result_container = EmptyDict
  /\ started = 0
  /\ all_cands = <<>>

InitMenuVars ==
  /\ cands = <<>>
  /\ selected = <<>>
  /\ pos = 0
  /\ top = 0
  /\ body_h = 0
  /\ chosen = Pending
  /\ ch = "none"

InitEndVars ==
  /\ exit_code = 0
  /\ installs = 0
  /\ err_shown = ""
  /\ answer = Eof
  /\ install_status = 0

\* A whole run of main(). The line typed at the text fallback is part of the
\* environment of a run that can get there; one that takes the curses menu
\* never reads it.
Init ==
  /\ \E c \in MainConfigs, r \in MainRegistries, f \in MainFlags, t \in ResponsePool :
       /\ InitEnv(c, r, f)
       /\ typed_line = IF ~f.no_curses /\ f.tty THEN Eof ELSE t
  /\ InitClassVars
  /\ InitQueryVars
  /\ InitMenuVars
  /\ InitEndVars
  /\ pc = "start"
  /\ reached = {}

NextClassify == ClassifyBegin \/ ClassifyUnit \/ ClassifyReturn

NextQuery ==
  \/ StartWorker
  \/ WorkerRun
  \/ WorkerStoreRc
  \/ WorkerStoreOut
  \/ WorkerStoreErr
  \/ WorkerSignal
  \/ WorkerExit
  \/ ShowProgressBar
  \/ JoinWorker
  \/ CheckResults

NextMenu == Frame \/ Key

Next ==
  \/ ParseArgs
  \/ NextClassify
  \/ NextQuery
  \/ FilterAndSort
  \/ CursesSelect
  \/ NextMenu
  \/ FallbackSelect
  \/ AfterSelect
  \/ Ask
  \/ Install

Spec == Init /\ [][Next]_vars

\* The classifier alone, over every environment and every registry of up to
\* MaxDists units.
InitClassify ==
  /\ \E c \in EnvConfigs, r \in SeqsUpTo(UnitPool, MaxDists) : InitEnv(c, r, NoFlags)
  /\ typed_line = Eof
  /\ InitClassVars
  /\ InitQueryVars
  /\ InitMenuVars
  /\ InitEndVars
  /\ pc = "detect"
  /\ reached = {}

SpecClassify == InitClassify /\ [][NextClassify]_vars

\* The curses menu alone, entered as curses_select enters _ui, over 1..MaxRows
\* rows in the order main sorted them.
RowNames == <<"a", "b", "c", "d", "e", "f">>

MenuRows(n) == [i \in 1..n |-> [name |-> <<RowNames[i]>>, current |-> "1.0", latest |-> "2.0"]]

InitMenu ==
  /\ InitEnv(CHOOSE c \in MainConfigs : c.cp = "", <<>>, NoFlags)
  /\ typed_line = Eof
  /\ InitClassVars
  /\ InitQueryVars
  /\ InitEndVars
  /\ \E n \in 1..MaxRows :
       /\ cands = MenuRows(n)
       /\ selected = [i \in 1..n |-> FALSE]
  /\ pos = 0
  /\ top = 0
  /\ body_h = 0
  /\ chosen = Pending
  /\ ch = "none"
  /\ pc = "frame"
  /\ reached = {"menu"}

SpecMenu == InitMenu /\ [][NextMenu]_vars

\* The text fallback alone, over 1..MaxRows rows and every line of up to
\* MaxLine characters: digits in and out of range, blanks, commas, a letter
\* and a digit that is not decimal.
LineChars == {"0", "1", "2", "9", " ", ",", "x", SuperscriptTwo}

FallbackFlags == [user |-> FALSE, dry_run |-> FALSE, no_curses |-> TRUE,
                  tty |-> TRUE, venv |-> FALSE]

InitFallback ==
  /\ InitEnv(CHOOSE c \in MainConfigs : c.cp = "", <<>>, FallbackFlags)
  /\ typed_line \in {Eof} \cup {Line(t) : t \in SeqsUpTo(LineChars, MaxLine)}
  /\ InitClassVars
  /\ InitQueryVars
  /\ InitEndVars
  /\ \E n \in 1..MaxRows : cands = MenuRows(n)
  /\ selected = <<>>
  /\ pos = 0
  /\ top = 0
  /\ body_h = 0
  /\ chosen = Pending
  /\ ch = "none"
  /\ pc = "fallback"
  /\ reached = {}

NextFallback == FallbackSelect

SpecFallback == InitFallback /\ [][NextFallback]_vars

\* norm_name alone, as the classifier applies it to the names of two installed
\* units: every pair of names of up to MaxName characters that differ only in
\* letter case and in the separators standing at each separator position.
NameChars == {"a", "A", "b", "-", "_", "."}

Names == SeqsUpTo(NameChars, MaxName) \ {<<>>}

SameLetter(c, d) == c = d \/ {c, d} = {"a", "A"}

RECURSIVE SkipRun(_)
SkipRun(s) == IF s # <<>> /\ Head(s) \in Separators THEN SkipRun(Tail(s)) ELSE s

\* n and m read alike, letter by letter up to case and separator run by
\* separator run.
RECURSIVE SameUpToCaseAndSeparators(_, _)
SameUpToCaseAndSeparators(n, m) ==
  IF n = <<>> \/ m = <<>> THEN n = m
  ELSE IF Head(n) \in Separators \/ Head(m) \in Separators
       THEN /\ Head(n) \in Separators
            /\ Head(m) \in Separators
            /\ SameUpToCaseAndSeparators(SkipRun(n), SkipRun(m))
  ELSE SameLetter(Head(n), Head(m)) /\ SameUpToCaseAndSeparators(Tail(n), Tail(m))

InitNorm ==
  /\ \E n \in Names, m \in Names :
       /\ SameUpToCaseAndSeparators(n, m)
       /\ InitEnv(CHOOSE c \in MainConfigs : c.cp = "",
                  <<Unit(n, "pip"), Unit(m, "pip")>>, NoFlags)
  /\ typed_line = Eof
  /\ InitClassVars
  /\ InitQueryVars
  /\ InitMenuVars
  /\ InitEndVars
  /\ pc = "detect"
  /\ reached = {}

SpecNorm == InitNorm /\ [][NextClassify]_vars

\* ------------------------------------------------- the properties
\* C1: at every rendered frame of the curses menu (N >= 1 rows, any keys, any
\* terminal height read afresh each frame) the cursor is a row index, lies
\* inside the viewport, and the viewport offset is in 0 .. max(0, N - bodyHeight).
C1_FrameBounds ==
  pc = "getch" =>
    /\ 0 <= pos /\ pos <= Len(cands) - 1
    /\ top <= pos /\ pos <= top + body_h - 1
    /\ 0 <= top /\ top <= Max(0, Len(cands) - body_h)

\* A rendered frame that is scrolled down with the cursor on its last line,
\* more rows than lines, and a row selected.
C1_Witness ==
  /\ pc = "getch"
  /\ top > 0
  /\ body_h >= 2
  /\ pos = top + body_h - 1
  /\ Len(cands) > body_h
  /\ \E i \in 1..Len(selected) : selected[i]

\* C2 as stated: at every rendered frame top is the smallest allowed offset at
\* which pos is visible, whatever the previous frame's top was.
C2_TopMinimal ==
  pc = "getch" =>
    \A t \in 0..Max(0, Len(cands) - body_h) :
      (t <= pos /\ pos <= t + body_h - 1) => top <= t

\* C2 amended: each frame moves top from the previous frame's top by the least
\* amount that makes pos visible within 0 .. max(0, N - bodyHeight): it is the
\* previous top clamped into the offsets that show pos.
C2_TopNearestToPrevious ==
  [][(pc = "frame" /\ pc' = "getch") =>
       top' = Max(Max(0, pos' - body_h' + 1),
                  Min(Min(pos', Max(0, Len(cands) - body_h')), top))]_vars

\* A rendered frame whose top is not the smallest offset showing pos.
C2_Witness ==
  /\ pc = "getch"
  /\ top > Max(0, pos - body_h + 1)
  /\ top <= pos

SelectedIndices == {i \in 1..Len(selected) : selected[i]}

RankOf(i) == Cardinality({j \in SelectedIndices : j <= i})

IsSelection(items) ==
  /\ Len(items) = Cardinality(SelectedIndices)
  /\ \A i \in SelectedIndices : items[RankOf(i)] = cands[i]

\* C3: the menu ends on a confirm key with exactly the selected rows in display
\* order, on a quit key with "cancelled", and on no other key.
C3_MenuResult ==
  /\ (pc = "selected" =>
        \/ ch \in ConfirmKeys /\ chosen.kind = "list" /\ IsSelection(chosen.items)
        \/ ch \in QuitKeys /\ chosen = Cancelled)
  /\ (pc \in {"frame", "getch"} => ch \notin ConfirmKeys \cup QuitKeys /\ chosen = Pending)

\* The menu confirmed with some rows selected and some not.
C3_Witness ==
  /\ pc = "selected"
  /\ ch = "13"
  /\ Len(chosen.items) = 2
  /\ Len(cands) = 4
  /\ selected[2] /\ selected[4]

ResultKeys == {"rc", "out", "err"}

\* C4: the primary thread leaves the polling loop only with the event set,
\* reads the result only after the join, and the event is set only once rc, out
\* and err are all stored, so that what is read is what run_capture returned.
C4_ReadAfterSignalAndJoin ==
  /\ (stop_event =>
        /\ DOMAIN result_container = ResultKeys
        /\ result_container["rc"] = wlocal.rc
        /\ result_container["out"] = wlocal.out
        /\ result_container["err"] = wlocal.err)
  /\ (pc = "join" => stop_event)
  /\ (pc = "check" => stop_event /\ wpc = "done")
  /\ ("parse" \in reached => wlocal.rc = 0 /\ all_cands = parse_pip_list_outdated_json(wlocal.out))

\* The primary thread about to read a complete result of a successful query.
C4_Witness ==
  /\ pc = "check"
  /\ wpc = "done"
  /\ DOMAIN result_container = ResultKeys
  /\ result_container["out"].kind = "list"
  /\ Len(result_container["out"].items) > 1

\* C5: once the query command has returned a nonzero status rc, the run can
\* only end, with exactly rc and with the captured error text printed; the
\* parser, both menus and the install command are never reached.
C5_QueryFailureIsFatal ==
  (wpc \in {"store_rc", "store_out", "store_err", "signal", "exiting", "done"}
     /\ wlocal.rc # 0) =>
    /\ pc \in {"poll", "join", "check", "exit"}
    /\ reached \cap {"parse", "menu", "upgrade", "install"} = {}
    /\ installs = 0
    /\ all_cands = <<>> /\ cands = <<>> /\ chosen = Pending
    /\ (pc = "exit" => exit_code = wlocal.rc /\ err_shown = wlocal.err)

\* A run ended by a query that failed with status 2 and "network error".
C5_Witness ==
  /\ pc = "exit"
  /\ wpc = "done"
  /\ wlocal.rc = 2
  /\ exit_code = 2
  /\ err_shown = "network error"

\* C6: a unit whose INSTALLER marker is "conda" always increments the excluded
\* count and adds nothing to the eligible set, whatever the other signals are.
C6_CondaMarkerExcluded ==
  [][(pc = "classify" /\ idx <= Len(dists) /\ dists[idx].installer = "conda") =>
       /\ excluded_conda' = excluded_conda + 1
       /\ pip_names' = pip_names]_vars

\* A unit marked conda was excluded with no conda environment detected, while
\* an earlier unit of the same normalized name was taken as eligible.
C6_Witness ==
  /\ pc = "classify"
  /\ conda_prefix = NoPath
  /\ Len(verdicts) = 2
  /\ dists[2].installer = "conda"
  /\ verdicts = <<"eligible", "excluded">>
  /\ norm_name(dists[1].name) = norm_name(dists[2].name)
  /\ excluded_conda = 1

\* C7: a unit whose marker is not "conda" is excluded exactly when a conda
\* environment was detected and its normalized name is among the manifest
\* names; otherwise it is eligible, whatever its marker (pip, empty, other).
C7_ManifestExclusion ==
  [][(pc = "classify" /\ idx <= Len(dists) /\ dists[idx].installer # "conda") =>
       IF conda_prefix # NoPath /\ norm_name(dists[idx].name) \in conda_names
       THEN /\ excluded_conda' = excluded_conda + 1
            /\ pip_names' = pip_names
       ELSE /\ excluded_conda' = excluded_conda
            /\ pip_names' = pip_names \cup {norm_name(dists[idx].name)}]_vars

\* Inside a detected conda environment one pip-marked unit was excluded by the
\* manifest and a third-party unit was taken as eligible.
C7_Witness ==
  /\ pc = "classify"
  /\ conda_prefix # NoPath
  /\ Len(verdicts) = 2
  /\ \E i, j \in 1..2 :
       /\ dists[i].installer = "pip" /\ verdicts[i] = "excluded"
       /\ dists[j].installer = "uv" /\ verdicts[j] = "eligible"

EligibleUnits == {i \in 1..Len(verdicts) : verdicts[i] = "eligible"}

\* C8: the classifier partitions the enumerated units: the two counts it
\* returns add up to the number of units, and the eligible count is the number
\* of units classified eligible.
C8_CountsPartition ==
  pc = "query" =>
    /\ pip_count + excluded_conda = Len(dists)
    /\ pip_count = Cardinality(EligibleUnits)

AsIfUnset == IF fs_meta[SysPrefix].isdir THEN SysPrefix ELSE NoPath

\* C9 as stated: with CONDA_PREFIX naming a path that holds no conda-meta
\* directory, detection gives what it gives with the variable unset.
C9_IgnoredWithoutMarker ==
  (pc # "detect" /\ env_conda_prefix # "" /\ ~fs_meta[env_conda_prefix].isdir) =>
    conda_prefix = AsIfUnset

\* C9 amended: the variable is ignored when the path it names does not exist;
\* when the path exists without a conda-meta directory it is still the detected
\* environment, with no manifest names.
C9_IgnoredWhenPathMissing ==
  (pc # "detect" /\ env_conda_prefix # "") =>
    /\ (env_conda_prefix \notin fs_exists => conda_prefix = AsIfUnset)
    /\ ((env_conda_prefix \in fs_exists /\ ~fs_meta[env_conda_prefix].isdir) =>
          conda_prefix = env_conda_prefix /\ conda_names = {})

\* CONDA_PREFIX names an existing directory without conda-meta while sys.prefix
\* has one: the directory is the detected environment and a unit the manifest
\* of sys.prefix names was taken as eligible.
C9_Witness ==
  /\ pc = "classify"
  /\ env_conda_prefix = EnvPath
  /\ EnvPath \in fs_exists
  /\ ~fs_meta[EnvPath].isdir
  /\ fs_meta[SysPrefix] = MetaAB
  /\ conda_prefix = EnvPath
  /\ Len(verdicts) >= 1
  /\ norm_name(dists[1].name) = <<"a", "-", "b">>
  /\ verdicts[1] = "eligible"

CountIn(x, seq) == Cardinality({i \in 1..Len(seq) : seq[i] = x})

\* C10: the list handed to a menu is exactly the query's candidates whose
\* normalized name is eligible, ordered by normalized name, and holds no
\* candidate one of whose installed units was classified as excluded.
C10_MenuList ==
  (pc \in {"curses", "fallback"} \/ "menu" \in reached) =>
    /\ \A c \in {all_cands[i] : i \in 1..Len(all_cands)} \cup {cands[i] : i \in 1..Len(cands)} :
         CountIn(c, cands) =
           IF norm_name(c.name) \in pip_names THEN CountIn(c, all_cands) ELSE 0
    /\ \A i, j \in 1..Len(cands) :
         i < j => ~StrLess(norm_name(cands[j].name), norm_name(cands[i].name))
    /\ \A i \in 1..Len(cands), u \in 1..Len(dists) :
         norm_name(dists[u].name) = norm_name(cands[i].name) => verdicts[u] # "excluded"

\* What main does guarantee of that list: it is the eligible-name filter of the
\* query's candidates, in the order of their normalized names.
C10_FilteredAndSorted ==
  (pc \in {"curses", "fallback"} \/ "menu" \in reached) =>
    /\ \A c \in {all_cands[i] : i \in 1..Len(all_cands)} \cup {cands[i] : i \in 1..Len(cands)} :
         CountIn(c, cands) =
           IF norm_name(c.name) \in pip_names THEN CountIn(c, all_cands) ELSE 0
    /\ \A i, j \in 1..Len(cands) :
         i < j => ~StrLess(norm_name(cands[j].name), norm_name(cands[i].name))

\* An answer that, stripped and lowercased, reads y or yes.
IsAffirmative(r) == ~r.eof /\ Lower(Strip(r.text)) \in {<<"y">>, <<"y", "e", "s">>}

\* C11: the install command runs at most once, and it is about to run or has
\* run only if the query succeeded, the menu returned a selection that is not
\* cancelled and holds a candidate, --dry-run is not set and the last answer at
\* the confirmation was an explicit yes (an empty answer and end of input are
\* not); a run that ends on an empty confirmed selection or under --dry-run
\* has not run it and ends with status 0.
C11_InstallOnlyWhenConfirmed ==
  /\ installs <= 1
  /\ ((pc = "install" \/ installs >= 1) =>
        /\ "parse" \in reached /\ ~wlocal.raises /\ wlocal.rc = 0
        /\ chosen.kind = "list" /\ chosen.items # <<>>
        /\ ~arg_dry_run
        /\ IsAffirmative(answer))
  /\ ((pc = "exit" /\ chosen.kind = "list" /\ (chosen.items = <<>> \/ arg_dry_run)) =>
        installs = 0 /\ exit_code = 0)

\* The install command ran once, after the answer " Yes", and failed.
C11_Witness ==
  /\ pc = "exit"
  /\ installs = 1
  /\ answer = Line(<<" ", "Y", "e", "s">>)
  /\ Len(chosen.items) >= 1
  /\ exit_code = 1

\* C12: the run ends with status 2 when the user quit the curses menu, left the
\* fallback's line blank or declined the confirmation; with 0 when no candidate
\* is eligible, when the confirmed selection is empty, or when --dry-run stops
\* a confirmed selection; and with the install command's own status when that
\* command ran.
C12_ExitStatus ==
  pc = "exit" =>
    /\ (chosen = Cancelled => exit_code = 2)
    /\ (("upgrade" \in reached /\ chosen.items # <<>> /\ ~arg_dry_run /\ installs = 0) =>
          ~IsAffirmative(answer) /\ exit_code = 2)
    /\ (("parse" \in reached /\ cands = <<>>) => exit_code = 0 /\ "menu" \notin reached)
    /\ ((chosen.kind = "list" /\ chosen.items = <<>>) => exit_code = 0)
    /\ ((chosen.kind = "list" /\ arg_dry_run) => exit_code = 0)
    /\ (installs >= 1 => exit_code = install_status)

\* The install command ran and failed; the run ended with its status.
C12_Witness ==
  /\ pc = "exit"
  /\ installs = 1
  /\ install_status = 1
  /\ exit_code = 1
  /\ ch = "KEY_ENTER"

IsSeparator(c) == c \in Whitespace \cup {","}

\* s[a..b] is a token of s: a maximal run of characters that are neither
\* whitespace nor commas.
IsToken(s, a, b) ==
  /\ 1 <= a /\ a <= b /\ b <= Len(s)
  /\ \A k \in a..b : ~IsSeparator(s[k])
  /\ (a = 1 \/ IsSeparator(s[a - 1]))
  /\ (b = Len(s) \/ IsSeparator(s[b + 1]))

DecimalDigit == <<"1", "2", "3", "4", "5", "6", "7", "8", "9">>

\* s[a..b] is a numeral of i, for 1 <= i <= 9: the digit of i behind any
\* number of zeros.
IsNumeralOf(s, a, b, i) == s[b] = DecimalDigit[i] /\ \A k \in a..(b - 1) : s[k] = "0"

\* The row indices of 1..n that occur in s as numeric tokens.
TypedIndices(s, n) ==
  {i \in 1..n : \E a, b \in 1..Len(s) : IsToken(s, a, b) /\ IsNumeralOf(s, a, b, i)}

\* C13: the text fallback returns cancelled for a line that is empty or all
\* whitespace; for any other line it returns the candidates at the distinct
\* indices of 1..N that occur in it as numeric tokens (separated by whitespace
\* or commas), in ascending order and each once; other tokens add nothing, so
\* that a line without a valid token yields the empty selection.
C13_FallbackSelection ==
  (pc # "fallback" /\ "menu" \in reached /\ ~typed_line.eof) =>
    LET s == typed_line.text
        picked == TypedIndices(s, Len(cands))
    IN IF \A k \in 1..Len(s) : s[k] \in Whitespace
       THEN chosen = Cancelled
       ELSE /\ chosen.kind = "list"
            /\ Len(chosen.items) = Cardinality(picked)
            /\ \A i \in picked :
                 chosen.items[Cardinality({j \in picked : j <= i})] = cands[i]

\* What the fallback does guarantee: the same, of every line in which no token
\* passes isdigit() without being a decimal numeral.
C13_DecimalLines ==
  FallbackRaises(typed_line.text) \/ C13_FallbackSelection

\* The line "2,01" picked rows 1 and 2, in that order.
C13_Witness ==
  /\ pc = "selected"
  /\ typed_line = Line(<<"2", ",", "0", "1">>)
  /\ Len(cands) = 3
  /\ chosen = Chosen(<<cands[1], cands[2]>>)

\* C14: select-all (a/A) sets every entry of the selection true; select-none
\* (n/N) pressed as the next key after a select-all leaves the selection
\* all-false, as curses_select created it, and of the same length N.
C14_SelectAllThenNone ==
  [][(pc = "getch" /\ pc' = "frame") =>
       /\ (ch' \in AllKeys => selected' = [i \in 1..Len(cands) |-> TRUE])
       /\ ((ch \in AllKeys /\ (\A i \in 1..Len(selected) : selected[i]) /\ ch' \in NoneKeys) =>
             /\ selected' = [i \in 1..Len(cands) |-> FALSE]
             /\ Len(selected') = Len(cands))]_vars

\* Select-all was pressed with the cursor away from the first of four rows.
C14_Witness ==
  /\ pc = "frame"
  /\ ch = "A"
  /\ Len(cands) = 4
  /\ pos = 2
  /\ \A i \in 1..4 : selected[i]

\* C17: in the curses menu no step changes the candidate list or the length of
\* the selection; a key that is neither the space bar nor select-all/none
\* (navigation, unrecognised) leaves the selection as it is; the space bar
\* flips the entry at pos and leaves pos and every other entry; select-all and
\* select-none leave pos.
C17_KeyFrame ==
  [][(pc \in {"frame", "getch"}) =>
       /\ cands' = cands
       /\ Len(selected') = Len(cands)
       /\ ((pc = "getch" /\ pc' = "frame") =>
             /\ (ch' \notin {" "} \cup AllKeys \cup NoneKeys => selected' = selected)
             /\ (ch' = " " =>
                   /\ pos' = pos
                   /\ selected'[pos + 1] = ~selected[pos + 1]
                   /\ \A i \in 1..Len(selected) : i # pos + 1 => selected'[i] = selected[i])
             /\ (ch' \in AllKeys \cup NoneKeys => pos' = pos))]_vars

\* The space bar selected the third of four rows, the first being selected and
\* the second not.
C17_Witness ==
  /\ pc = "frame"
  /\ ch = " "
  /\ Len(cands) = 4
  /\ pos = 2
  /\ selected = <<TRUE, FALSE, TRUE, FALSE>>

\* x is in normal form: lowercase letters, and "-" the only separator, never
\* twice in a row.
IsNormalForm(x) ==
  /\ \A i \in 1..Len(x) : x[i] \in {"a", "b", "-"}
  /\ \A i \in 1..(Len(x) - 1) : ~(x[i] = "-" /\ x[i + 1] = "-")

\* C15: two names that differ only in letter case and in the separator
\* characters or runs of them standing at each separator position normalize to
\* one and the same name, which reads like both with every separator run a
\* single "-" and every letter lowercase.
C15_NormalizeAlike ==
  (pc = "query" /\ Len(dists) = 2
     /\ SameUpToCaseAndSeparators(dists[1].name, dists[2].name)) =>
    \E x \in pip_names :
      /\ pip_names = {x}
      /\ IsNormalForm(x)
      /\ SameUpToCaseAndSeparators(x, dists[1].name)
      /\ SameUpToCaseAndSeparators(x, dists[2].name)

\* "A_." and "a-" were both normalized to "a-".
C15_Witness ==
  /\ pc = "query"
  /\ Len(dists) = 2
  /\ dists[1].name = <<"A", "_", ".">>
  /\ dists[2].name = <<"a", "-">>
  /\ pip_names = {<<"a", "-">>}

\* The worker thread has been started and has not ended.
WorkerAlive == wpc \in {"run", "store_rc", "store_out", "store_err", "signal", "exiting"}

\* C16: one worker thread at most is ever started; it lives beside the primary
\* thread only while the primary thread polls or waits in join; the parsing,
\* the filtering, both menus, the confirmation and the install command are
\* reached only once the worker has been started, has ended and was joined.
C16_OneWorkerInQueryPhase ==
  /\ started <= 1
  /\ (wpc = "idle" <=> started = 0)
  /\ (WorkerAlive => pc \in {"poll", "join"})
  /\ ((\/ pc \in {"check", "filter", "curses", "frame", "getch", "fallback",
                  "selected", "ask", "install"}
       \/ reached \cap {"parse", "menu", "upgrade", "install"} # {}) =>
        started = 1 /\ ~WorkerAlive)

\* The install command is about to run, the one worker having ended.
C16_Witness ==
  /\ pc = "install"
  /\ started = 1
  /\ wpc = "done"
  /\ stop_event

\* C18: once the worker thread has ended, by returning or by raising, the
\* completion event is set, so that the polling loop, whose only exit is the
\* event seen set, leaves and the join is reached. The worker is the only
\* thread that sets the event: if it is clear when the worker has ended it
\* stays clear for ever.
C18_SignalSetWhenWorkerEnded ==
  wpc \in {"done", "raised"} => stop_event

\* What the code does guarantee: the event is set when the worker has ended by
\* returning from run_pip.
C18_SignalSetWhenWorkerReturned ==
  wpc = "done" => stop_event

\* The worker has ended by an exception of run_capture and the primary thread
\* is in the polling loop with the event clear.
C18_Witness ==
  /\ wpc = "raised"
  /\ pc = "poll"
  /\ ~stop_event

\* C19: once the classifier has gone through the registry, the eligible set
\* holds the normalized name of no unit that was counted as excluded, also when
\* two units share a normalized name and differ in their markers.
C19_NoExcludedNameEligible ==
  \A u \in 1..Len(verdicts) :
    verdicts[u] = "excluded" => norm_name(dists[u].name) \notin pip_names

\* Two units of one normalized name, the first marked conda and excluded, the
\* second marked pip and taken as eligible.
C19_Witness ==
  /\ pc = "query"
  /\ Len(dists) = 2
  /\ dists[1].installer = "conda"
  /\ dists[2].installer = "pip"
  /\ norm_name(dists[1].name) = norm_name(dists[2].name)
  /\ verdicts = <<"excluded", "eligible">>
  /\ excluded_conda = 1

\* C20: no menu is entered with an empty candidate list: a run whose filtered
\* list is empty ends with status 0 before any menu; in every state of the
\* curses menu N >= 1, the selection has N entries and the cursor, which is
\* the entry the space bar toggles, is an index of it.
C20_MenuNeverEmpty ==
  /\ ((pc \in {"curses", "fallback", "frame", "getch"} \/ "menu" \in reached) =>
        Len(cands) >= 1)
  /\ (("parse" \in reached /\ pc # "filter" /\ cands = <<>>) =>
        pc = "exit" /\ exit_code = 0 /\ "menu" \notin reached)
  /\ (pc \in {"frame", "getch"} =>
        /\ Len(selected) = Len(cands)
        /\ 0 <= pos
        /\ pos < Len(selected))

\* The space bar toggled the only row of a one-row menu.
C20_Witness ==
  /\ pc = "getch"
  /\ Len(cands) = 1
  /\ ch = " "
  /\ pos = 0
  /\ selected = <<TRUE>>
  /\ "parse" \in reached

====
